---- MODULE Spec2Model ----
(***************************************************************************)
(* Model of devrel-blog-utils: the markdown frontmatter extractor and      *)
(* updater, and the tag generator that runs them over one file or over the *)
(* files of a directory that match a pattern.                              *)
(*                                                                         *)
(* A text is the sequence of its lines, text = content.split("\n"):        *)
(*   "a\nb"   is <<"a", "b">>,   "a\n" is <<"a", "">>,   "" is <<"">>.     *)
(* Two texts are byte-identical exactly when the sequences are equal.      *)
(*                                                                         *)
(* A YAML value is a tagged pair <<tag, payload>>; a mapping (a JavaScript *)
(* object) is the sequence of its <<key, value>> entries in insertion      *)
(* order.                                                                  *)
(***************************************************************************)
EXTENDS Integers, Sequences, FiniteSets, TLC

VARIABLES
  fileExists,       \* whether the file at filePath can be read
  content,          \* the text of the file at filePath
  createIfMissing,  \* options.createIfMissing of the updater
  originalContent,  \* the text of the file before the last operation
  result,           \* what the last operation was called with and returned
  files,            \* the directory of the tag generator: entry name -> text
  dirReadable,      \* whether readdir can list the directory
  originalFiles,    \* the directory when run() was called
  path,             \* the base name of options.filePath of the tag generator
  pc,               \* where run() is: idle, extract, ai, done or failed
  matched,          \* the files run() is to process, in order
  index,            \* how many of them it has finished
  frontmatter,      \* what extract() returned for the file being processed
  log,              \* what run() has done so far, oldest first
  runError,         \* the error run() raised, <<>> when it raised none
  exitCode,         \* the exit code of the last command, -1 while it runs
  stdout,           \* what the last command printed with console.log
  writers           \* the write operations that run at the same time on the file

updaterVars == <<fileExists, content, originalContent, result>>
tagVars == <<files, dirReadable, originalFiles, path, pc, matched, index, frontmatter,
             log, runError, exitCode, stdout>>
vars == <<fileExists, content, createIfMissing, originalContent, result,
          files, dirReadable, originalFiles, path, pc, matched, index, frontmatter,
          log, runError, exitCode, stdout, writers>>

----------------------------------------------------------------------------
(* Bounds of the model                                                     *)

MaxBodyLines == 1   \* lines of markdown after the closing fence
MaxEntries == 1     \* entries of a mapping in a file or an argument
MaxFields == 2      \* names in a fields / fieldsToRemove list
MaxTags == 4        \* tags in a response of the AI model

----------------------------------------------------------------------------
(* Values                                                                  *)

Str(s) == <<"str", s>>
Bool(b) == <<"bool", b>>
\* a number, by its decimal text
Num(n) == <<"num", n>>
Null == <<"null", "">>
SeqV(items) == <<"seq", items>>
MapV(entries) == <<"map", entries>>
\* a function inherited from Object.prototype
Fn(name) == <<"fn", name>>

filePath == "/post.md"

Keys == {"title", "meta"}
NestedKeys == {"a", "b"}

\* the property names every plain object inherits from Object.prototype
ObjectPrototypeKeys == {"constructor"}

TitleValues == {Str("true"), Bool("true")}
MetaValues == {MapV(<< <<"a", Str("X")>> >>), MapV(<< <<"b", Str("X")>> >>)}

ValuesOf(k) == IF k = "title" THEN TitleValues ELSE MetaValues

Entries == UNION {{<<k, v>> : v \in ValuesOf(k)} : k \in Keys}

KeysOf(m) == {m[i][1] : i \in 1..Len(m)}

DistinctKeys(m) == \A i, j \in 1..Len(m) : m[i][1] = m[j][1] => i = j

\* the mappings the model reads from files and passes as arguments
Mappings ==
  {m \in UNION {[1..n -> Entries] : n \in 0..MaxEntries} : DistinctKeys(m)}

\* the value of own property k of object m
Get(m, k) == m[CHOOSE i \in 1..Len(m) : m[i][1] = k][2]

\* a mapping as a function from its keys, forgetting insertion order
AsMap(m) == [k \in KeysOf(m) |-> Get(m, k)]

----------------------------------------------------------------------------
(* The YAML library: stringify(value, {lineWidth: -1,                      *)
(* defaultStringType: 'PLAIN'}) and parse(text)                            *)

Quote(s) == "\"" \o s \o "\""

\* strings that a plain scalar would not read back as a string
NumberTexts == {"1"}

AmbiguousPlain == {"true", "false", "null", "~", ""} \cup NumberTexts

\* the tags the AI model answers with, in the order of its answer
TagNames == <<"t1", "true", "t3", "t4", "t5", "t6">>

StrPayloads ==
  {"X", "true", "a", "b", "1", "old"} \cup {TagNames[i] : i \in 1..Len(TagNames)}

\* stringifyString that writes every string plain
ScalarText_NeverQuotes(v) ==
  IF v[1] \in {"str", "bool", "num"} THEN v[2] ELSE "null"

\* stringifyString with defaultStringType PLAIN: plain unless the plain
\* text would resolve to another type, then double-quoted
ScalarText(v) ==
  IF v[1] = "str"
    THEN IF v[2] \in AmbiguousPlain THEN Quote(v[2]) ELSE v[2]
    ELSE IF v[1] \in {"bool", "num"} THEN v[2] ELSE "null"

\* the double-quoted form of each string, and the string it reads as
QuotedStrings == [t \in {Quote(s) : s \in StrPayloads} |->
                    CHOOSE s \in StrPayloads : t = Quote(s)]

\* the core schema's resolution of a scalar token
ParseScalarText(t) ==
  IF t \in DOMAIN QuotedStrings THEN Str(QuotedStrings[t])
    ELSE IF t \in {"true", "false"} THEN Bool(t)
    ELSE IF t \in {"null", "~"} THEN Null
    ELSE IF t \in NumberTexts THEN Num(t)
    ELSE Str(t)

\* the scalar tokens a line of the model can end in
ScalarTexts ==
  StrPayloads \cup {Quote(s) : s \in StrPayloads}
    \cup {"true", "false", "null", "~"} \cup NumberTexts

KeyLine(k, t) == k \o ": " \o t
HeaderLine(k) == k \o ":"
ItemLine(t) == "  - " \o t
NestedLine(k, t) == "  " \o k \o ": " \o t

\* block style, two-space indent; empty collections in flow style
StringifyEntry(e) ==
  LET k == e[1]
      v == e[2]
  IN  IF v[1] = "seq"
        THEN IF v[2] = <<>> THEN <<KeyLine(k, "[]")>>
             ELSE <<HeaderLine(k)>> \o [i \in 1..Len(v[2]) |-> ItemLine(ScalarText(v[2][i]))]
      ELSE IF v[1] = "map"
        THEN IF v[2] = <<>> THEN <<KeyLine(k, "{}")>>
             ELSE <<HeaderLine(k)>> \o
                  [i \in 1..Len(v[2]) |-> NestedLine(v[2][i][1], ScalarText(v[2][i][2]))]
      ELSE <<KeyLine(k, ScalarText(v))>>

RECURSIVE StringifyEntries(_)
StringifyEntries(m) ==
  IF m = <<>> THEN <<>> ELSE StringifyEntry(Head(m)) \o StringifyEntries(Tail(m))

\* stringifyYaml(m, ...).trim(), as lines
stringifyYaml(m) == IF m = <<>> THEN <<"{}">> ELSE StringifyEntries(m)

AllKeys == Keys \cup NestedKeys \cup ObjectPrototypeKeys \cup {"tags"}

\* what can follow "key: " on a line
InlineTexts == ScalarTexts \cup {"[]", "{}"}

\* the lines the parser knows, each with the tokens it is made of
KeyLineParts ==
  [l \in {KeyLine(k, t) : k \in AllKeys, t \in InlineTexts} |->
     CHOOSE kt \in AllKeys \X InlineTexts : l = KeyLine(kt[1], kt[2])]
HeaderLineParts ==
  [l \in {HeaderLine(k) : k \in AllKeys} |-> CHOOSE k \in AllKeys : l = HeaderLine(k)]
ItemLineParts ==
  [l \in {ItemLine(t) : t \in ScalarTexts} |-> CHOOSE t \in ScalarTexts : l = ItemLine(t)]
NestedLineParts ==
  [l \in {NestedLine(k, t) : k \in AllKeys, t \in ScalarTexts} |->
     CHOOSE kt \in AllKeys \X ScalarTexts : l = NestedLine(kt[1], kt[2])]

IsItemLine(l) == l \in DOMAIN ItemLineParts
IsNestedLine(l) == l \in DOMAIN NestedLineParts
IsKeyLine(l) == l \in DOMAIN KeyLineParts
IsHeaderLine(l) == l \in DOMAIN HeaderLineParts

\* the number of indented lines at the start of lines
RECURSIVE ChildRun(_)
ChildRun(lines) ==
  IF lines # <<>> /\ (IsItemLine(Head(lines)) \/ IsNestedLine(Head(lines)))
    THEN 1 + ChildRun(Tail(lines))
    ELSE 0

ParseItem(l) == ParseScalarText(ItemLineParts[l])

ParseNested(l) == <<NestedLineParts[l][1], ParseScalarText(NestedLineParts[l][2])>>

\* the value of a block collection under a "key:" line
ParseChildren(ch) ==
  IF ch = <<>> THEN [ok |-> TRUE, value |-> Null]
  ELSE IF \A i \in 1..Len(ch) : IsItemLine(ch[i])
    THEN [ok |-> TRUE, value |-> SeqV([i \in 1..Len(ch) |-> ParseItem(ch[i])])]
  ELSE IF (\A i \in 1..Len(ch) : IsNestedLine(ch[i]))
          /\ DistinctKeys([i \in 1..Len(ch) |-> ParseNested(ch[i])])
    THEN [ok |-> TRUE, value |-> MapV([i \in 1..Len(ch) |-> ParseNested(ch[i])])]
  ELSE [ok |-> FALSE, value |-> Null]

ParseInline(t) ==
  IF t = "[]" THEN SeqV(<<>>) ELSE IF t = "{}" THEN MapV(<<>>) ELSE ParseScalarText(t)

\* the entries of a block mapping; ok is FALSE where the library throws
RECURSIVE ParseEntries(_)
ParseEntries(lines) ==
  IF lines = <<>> THEN [ok |-> TRUE, entries |-> <<>>]
  ELSE
    LET h == Head(lines)
    IN  IF IsKeyLine(h)
          THEN LET kt == KeyLineParts[h]
                   rest == ParseEntries(Tail(lines))
               IN  [ok |-> rest.ok,
                    entries |-> <<<<kt[1], ParseInline(kt[2])>>>> \o rest.entries]
        ELSE IF IsHeaderLine(h)
          THEN LET k == HeaderLineParts[h]
                   n == ChildRun(Tail(lines))
                   child == ParseChildren(SubSeq(lines, 2, n + 1))
                   rest == ParseEntries(SubSeq(lines, n + 2, Len(lines)))
               IN  [ok |-> child.ok /\ rest.ok,
                    entries |-> <<<<k, child.value>>>> \o rest.entries]
        ELSE [ok |-> FALSE, entries |-> <<>>]

\* parseYaml that reads text it cannot parse as an empty mapping
parseYaml_Lenient(lines) ==
  IF lines = <<>> THEN [ok |-> TRUE, isNull |-> TRUE, entries |-> <<>>]
  ELSE IF lines = <<"{}">> THEN [ok |-> TRUE, isNull |-> FALSE, entries |-> <<>>]
  ELSE LET p == ParseEntries(lines)
       IN  IF p.ok /\ DistinctKeys(p.entries)
             THEN [ok |-> TRUE, isNull |-> FALSE, entries |-> p.entries]
             ELSE [ok |-> TRUE, isNull |-> FALSE, entries |-> <<>>]

\* parseYaml(text): the document's value, null for an empty document;
\* ok is FALSE where the library throws a YAMLParseError
parseYaml(lines) ==
  IF lines = <<>> THEN [ok |-> TRUE, isNull |-> TRUE, entries |-> <<>>]
  ELSE IF lines = <<"{}">> THEN [ok |-> TRUE, isNull |-> FALSE, entries |-> <<>>]
  ELSE LET p == ParseEntries(lines)
       IN  IF p.ok /\ DistinctKeys(p.entries)
             THEN [ok |-> TRUE, isNull |-> FALSE, entries |-> p.entries]
             ELSE [ok |-> FALSE, isNull |-> FALSE, entries |-> <<>>]

----------------------------------------------------------------------------
(* The markdown library: fromMarkdown with the yaml frontmatter extension, *)
(* toMarkdown with its default options.  The markdown after the fence is   *)
(* made of blank lines, ATX headings and paragraph lines.                  *)

Fence == "---"
HeadingLines == {"# H"}
ParagraphLines == {"text"}
BodyLines == {""} \cup HeadingLines \cup ParagraphLines

\* the line of the closing fence, 0 when the text does not open with a
\* fence that is closed further down
ClosingFence(text) ==
  IF text[1] = Fence /\ \E j \in 2..Len(text) : text[j] = Fence
    THEN CHOOSE j \in 2..Len(text) :
           text[j] = Fence /\ \A i \in 2..(j - 1) : text[i] # Fence
    ELSE 0

YamlNode(value) == [type |-> "yaml", value |-> value]

\* the number of paragraph lines at the start of lines
RECURSIVE ParagraphRun(_)
ParagraphRun(lines) ==
  IF lines # <<>> /\ Head(lines) # "" /\ Head(lines) \notin HeadingLines
    THEN 1 + ParagraphRun(Tail(lines))
    ELSE 0

\* the flow blocks of a run of lines: blank lines separate blocks, an ATX
\* heading is a block of its own, adjacent paragraph lines are one paragraph
RECURSIVE ParseBlocks(_)
ParseBlocks(lines) ==
  IF lines = <<>> THEN <<>>
  ELSE IF Head(lines) = "" THEN ParseBlocks(Tail(lines))
  ELSE IF Head(lines) \in HeadingLines
    THEN <<[type |-> "heading", value |-> <<Head(lines)>>]>> \o ParseBlocks(Tail(lines))
  ELSE LET n == ParagraphRun(lines)
       IN  <<[type |-> "paragraph", value |-> SubSeq(lines, 1, n)]>>
             \o ParseBlocks(SubSeq(lines, n + 1, Len(lines)))

\* ast.children
fromMarkdown(text) ==
  LET j == ClosingFence(text)
  IN  IF j # 0
        THEN <<YamlNode(SubSeq(text, 2, j - 1))>> \o ParseBlocks(SubSeq(text, j + 1, Len(text)))
        ELSE ParseBlocks(text)

RenderNode(node) ==
  IF node.type = "yaml" THEN <<Fence>> \o node.value \o <<Fence>> ELSE node.value

\* the children joined by one blank line
RECURSIVE JoinBlocks(_)
JoinBlocks(children) ==
  IF children = <<>> THEN <<>>
  ELSE IF Len(children) = 1 THEN RenderNode(children[1])
  ELSE RenderNode(children[1]) \o <<"">> \o JoinBlocks(Tail(children))

\* the serialized document, closed by a line ending unless it is empty
toMarkdown(children) ==
  IF children = <<>> THEN <<"">> ELSE JoinBlocks(children) \o <<"">>

\* the lines after the closing fence, everything that follows the fence
\* in the file
AfterFence(text) == SubSeq(text, ClosingFence(text) + 1, Len(text))

HasFrontmatter(text) == ClosingFence(text) # 0

----------------------------------------------------------------------------
(* MarkdownFrontmatterUpdater                                              *)

NoFrontmatterMessage == "No frontmatter found and createIfMissing is false"
YamlErrorMessage == "YAMLParseError"
ReadErrorMessage == "ENOENT: no such file or directory, open '" \o filePath \o "'"

\* an error is the chain of its wrapped messages, outermost first; the
\* message of the error is the chain joined by ": "
Ok(v) == [ok |-> TRUE, value |-> v, error |-> <<>>]
Err(chain) == [ok |-> FALSE, value |-> <<>>, error |-> chain]
Wrap(prefix, r) == IF r.ok THEN r ELSE Err(<<prefix>> \o r.error)

\* a search that never finds the yaml child
FrontmatterIndex_NeverFinds(ast) == 0

\* the index of the first yaml child, 0 when there is none
FrontmatterIndex(ast) ==
  IF \E i \in 1..Len(ast) : ast[i].type = "yaml"
    THEN CHOOSE i \in 1..Len(ast) :
           ast[i].type = "yaml" /\ \A j \in 1..(i - 1) : ast[j].type # "yaml"
    ELSE 0

\* updateFrontmatterInContent without the createIfMissing check
updateFrontmatterInContent_AlwaysCreates(text, newFrontmatter, create) ==
  LET ast == fromMarkdown(text)
      frontmatterIndex == FrontmatterIndex(ast)
  IN  IF frontmatterIndex # 0
        THEN Ok(toMarkdown([ast EXCEPT ![frontmatterIndex].value =
                                         stringifyYaml(newFrontmatter)]))
        ELSE Ok(toMarkdown(<<YamlNode(stringifyYaml(newFrontmatter))>> \o ast))

\* updateFrontmatterInContent that puts a new block in front whenever
\* createIfMissing is set
updateFrontmatterInContent_CreatesWhenSet(text, newFrontmatter, create) ==
  LET ast == fromMarkdown(text)
      frontmatterIndex == FrontmatterIndex(ast)
  IN  Wrap("Failed to update frontmatter in content",
        IF create
          THEN Ok(toMarkdown(<<YamlNode(stringifyYaml(newFrontmatter))>> \o ast))
        ELSE IF frontmatterIndex # 0
          THEN Ok(toMarkdown([ast EXCEPT ![frontmatterIndex].value =
                                           stringifyYaml(newFrontmatter)]))
        ELSE Err(<<NoFrontmatterMessage>>))

updateFrontmatterInContent(text, newFrontmatter, create) ==
  LET ast == fromMarkdown(text)
      frontmatterIndex == FrontmatterIndex(ast)
  IN  Wrap("Failed to update frontmatter in content",
        IF frontmatterIndex # 0
          THEN Ok(toMarkdown([ast EXCEPT ![frontmatterIndex].value =
                                           stringifyYaml(newFrontmatter)]))
        ELSE IF create
          THEN Ok(toMarkdown(<<YamlNode(stringifyYaml(newFrontmatter))>> \o ast))
        ELSE Err(<<NoFrontmatterMessage>>))

\* a decoded frontmatter: null, or the object with these entries
NullValue == [kind |-> "null", entries |-> <<>>]
Obj(entries) == [kind |-> "map", entries |-> entries]
Void == [kind |-> "void", entries |-> <<>>]

\* extractExistingFrontmatter without the "|| {}"
extractExistingFrontmatter_NullWhenEmpty(text) ==
  LET ast == fromMarkdown(text)
      i == FrontmatterIndex(ast)
  IN  IF i = 0 THEN Ok(NullValue)
      ELSE LET parsed == parseYaml(ast[i].value)
           IN  IF ~parsed.ok
                 THEN Err(<<"Failed to extract existing frontmatter", YamlErrorMessage>>)
               ELSE IF parsed.isNull THEN Ok(NullValue)
               ELSE Ok(Obj(parsed.entries))

\* the decoded mapping of the first yaml child, parseYaml(node.value) || {},
\* and null when the document has no yaml child
extractExistingFrontmatter(text) ==
  LET ast == fromMarkdown(text)
      i == FrontmatterIndex(ast)
  IN  Wrap("Failed to extract existing frontmatter",
        IF i = 0 THEN Ok(NullValue)
        ELSE LET parsed == parseYaml(ast[i].value)
             IN  IF ~parsed.ok THEN Err(<<YamlErrorMessage>>)
                 ELSE IF parsed.isNull THEN Ok(Obj(<<>>))
                 ELSE Ok(Obj(parsed.entries)))

\* a merge that descends into nested mappings instead of replacing them
Spread_DeepMerge(a, b) ==
  LET Own(m, k) == m[CHOOSE i \in 1..Len(m) : m[i][1] = k][2]
      Merged(x, y) ==
        IF x[1] = "map" /\ y[1] = "map"
          THEN MapV([i \in 1..Len(x[2]) |->
                       IF x[2][i][1] \in KeysOf(y[2])
                         THEN <<x[2][i][1], Own(y[2], x[2][i][1])>>
                         ELSE x[2][i]]
                    \o SelectSeq(y[2], LAMBDA e : e[1] \notin KeysOf(x[2])))
          ELSE y
      kept == [i \in 1..Len(a) |->
                 IF a[i][1] \in KeysOf(b)
                   THEN <<a[i][1], Merged(a[i][2], Own(b, a[i][1]))>>
                   ELSE a[i]]
      added == SelectSeq(b, LAMBDA e : e[1] \notin KeysOf(a))
  IN  kept \o added

\* {...a, ...b}: a's entries with b's values, then the entries only b has
Spread(a, b) ==
  LET kept == [i \in 1..Len(a) |->
                 IF a[i][1] \in KeysOf(b) THEN <<a[i][1], Get(b, a[i][1])>> ELSE a[i]]
      added == SelectSeq(b, LAMBDA e : e[1] \notin KeysOf(a))
  IN  kept \o added

\* a removal that stops after the first field
DeleteFields_FirstOnly(m, fields) ==
  SelectSeq(m, LAMBDA e : fields = <<>> \/ fields[1] # e[1])

\* delete m[field] for every field of fields
DeleteFields(m, fields) ==
  SelectSeq(m, LAMBDA e : \A i \in 1..Len(fields) : fields[i] # e[1])

----------------------------------------------------------------------------
(* MarkdownFrontmatterExtractor                                            *)

\* parseFrontmatter returning {} for a document without a yaml child
parseFrontmatter_EmptyWhenMissing(text) ==
  LET ast == fromMarkdown(text)
      i == FrontmatterIndex(ast)
  IN  IF i = 0 THEN Ok(Obj(<<>>))
      ELSE LET parsed == parseYaml(ast[i].value)
           IN  IF ~parsed.ok THEN Err(<<"Failed to parse frontmatter", YamlErrorMessage>>)
               ELSE IF parsed.isNull THEN Ok(Obj(<<>>))
               ELSE Ok(Obj(parsed.entries))

parseFrontmatter(text) ==
  LET ast == fromMarkdown(text)
      i == FrontmatterIndex(ast)
  IN  Wrap("Failed to parse frontmatter",
        IF i = 0 THEN Ok(NullValue)
        ELSE LET parsed == parseYaml(ast[i].value)
             IN  IF ~parsed.ok THEN Err(<<YamlErrorMessage>>)
                 ELSE IF parsed.isNull THEN Ok(Obj(<<>>))
                 ELSE Ok(Obj(parsed.entries)))

\* field in data: own keys and the keys inherited from Object.prototype
In(field, data) == field \in KeysOf(data) \/ field \in ObjectPrototypeKeys

\* data[field]
Lookup(data, field) ==
  IF field \in KeysOf(data) THEN Get(data, field) ELSE Fn(field)

\* filtered[field] = data[field], in the order of fields
RECURSIVE filterFields(_, _)
filterFields(data, fields) ==
  IF fields = <<>> THEN <<>>
  ELSE LET rest == filterFields(data, SubSeq(fields, 1, Len(fields) - 1))
           field == fields[Len(fields)]
       IN  IF In(field, data)
             THEN IF field \in KeysOf(rest)
                    THEN rest
                    ELSE Append(rest, <<field, Lookup(data, field)>>)
             ELSE rest

----------------------------------------------------------------------------
(* The operations: each reads the file, computes, and writes it back in    *)
(* its last step.  An outcome is the text the file holds afterwards and    *)
(* what the caller sees.                                                   *)

Outcome(op, arg, r, text, wrote) ==
  [content |-> text,
   result |-> [op |-> op, arg |-> arg,
               status |-> IF r.ok THEN "ok" ELSE "error",
               value |-> IF r.ok THEN r.value ELSE Void,
               error |-> r.error,
               wrote |-> wrote]]

\* a read that takes a missing file for an empty one
readFile_EmptyWhenMissing(exists, text) == Ok(text)

\* fs.readFile(filePath, 'utf-8')
readFile(exists, text) == IF exists THEN Ok(text) ELSE Err(<<ReadErrorMessage>>)

\* what a write operation does once it has the new text, or the error
\* a write that empties the file before the new text is known
WriteBack_TruncatesFirst(op, arg, prefix, r, text) ==
  IF r.ok
    THEN Outcome(op, arg, Ok(Void), r.value, TRUE)
    ELSE Outcome(op, arg, Wrap(prefix, r), <<"">>, FALSE)

WriteBack(op, arg, prefix, r, text) ==
  IF r.ok
    THEN Outcome(op, arg, Ok(Void), r.value, TRUE)
    ELSE Outcome(op, arg, Wrap(prefix, r), text, FALSE)

\* updateFrontmatter merging the updates into the existing frontmatter
updateFrontmatter_Merges(exists, text, create, updates) ==
  LET prefix == "Failed to update frontmatter in " \o filePath
      read == readFile(exists, text)
      existing == extractExistingFrontmatter(text)
  IN  IF ~read.ok THEN WriteBack("updateFrontmatter", updates, prefix, read, text)
      ELSE WriteBack("updateFrontmatter", updates, prefix,
                     updateFrontmatterInContent(
                       read.value,
                       IF existing.ok THEN Spread(existing.value.entries, updates)
                                      ELSE updates,
                       create),
                     text)

updateFrontmatter(exists, text, create, updates) ==
  LET prefix == "Failed to update frontmatter in " \o filePath
      read == readFile(exists, text)
  IN  IF ~read.ok THEN WriteBack("updateFrontmatter", updates, prefix, read, text)
      ELSE WriteBack("updateFrontmatter", updates, prefix,
                     updateFrontmatterInContent(read.value, updates, create), text)

updateFields(exists, text, create, fieldUpdates) ==
  LET prefix == "Failed to update fields in " \o filePath
      read == readFile(exists, text)
      existingFrontmatter == extractExistingFrontmatter(text)
  IN  IF ~read.ok THEN WriteBack("updateFields", fieldUpdates, prefix, read, text)
      ELSE IF ~existingFrontmatter.ok
        THEN WriteBack("updateFields", fieldUpdates, prefix, existingFrontmatter, text)
      ELSE LET updatedFrontmatter ==
                 Spread(existingFrontmatter.value.entries, fieldUpdates)
           IN  WriteBack("updateFields", fieldUpdates, prefix,
                         updateFrontmatterInContent(text, updatedFrontmatter, create), text)

\* removeFields without the early return for a file without frontmatter
removeFields_NoEarlyReturn(exists, text, create, fieldsToRemove) ==
  LET prefix == "Failed to remove fields from " \o filePath
      read == readFile(exists, text)
      existingFrontmatter == extractExistingFrontmatter(text)
  IN  IF ~read.ok THEN WriteBack("removeFields", fieldsToRemove, prefix, read, text)
      ELSE IF ~existingFrontmatter.ok
        THEN WriteBack("removeFields", fieldsToRemove, prefix, existingFrontmatter, text)
      ELSE LET updatedFrontmatter ==
                 DeleteFields(existingFrontmatter.value.entries, fieldsToRemove)
           IN  WriteBack("removeFields", fieldsToRemove, prefix,
                         updateFrontmatterInContent(text, updatedFrontmatter, create), text)

removeFields(exists, text, create, fieldsToRemove) ==
  LET prefix == "Failed to remove fields from " \o filePath
      read == readFile(exists, text)
      existingFrontmatter == extractExistingFrontmatter(text)
  IN  IF ~read.ok THEN WriteBack("removeFields", fieldsToRemove, prefix, read, text)
      ELSE IF ~existingFrontmatter.ok
        THEN WriteBack("removeFields", fieldsToRemove, prefix, existingFrontmatter, text)
      ELSE IF existingFrontmatter.value.kind = "null"
        THEN Outcome("removeFields", fieldsToRemove, Ok(Void), text, FALSE)
      ELSE LET updatedFrontmatter ==
                 DeleteFields(existingFrontmatter.value.entries, fieldsToRemove)
           IN  WriteBack("removeFields", fieldsToRemove, prefix,
                         updateFrontmatterInContent(text, updatedFrontmatter, create), text)

\* getCurrentFrontmatter that writes the re-serialized document back
getCurrentFrontmatter_WritesBack(exists, text) ==
  LET prefix == "Failed to read frontmatter from " \o filePath
      read == readFile(exists, text)
  IN  IF ~read.ok THEN Outcome("getCurrentFrontmatter", <<>>, Wrap(prefix, read), text, FALSE)
      ELSE Outcome("getCurrentFrontmatter", <<>>,
                   Wrap(prefix, extractExistingFrontmatter(text)),
                   toMarkdown(fromMarkdown(text)), TRUE)

getCurrentFrontmatter(exists, text) ==
  LET prefix == "Failed to read frontmatter from " \o filePath
      read == readFile(exists, text)
  IN  IF ~read.ok THEN Outcome("getCurrentFrontmatter", <<>>, Wrap(prefix, read), text, FALSE)
      ELSE Outcome("getCurrentFrontmatter", <<>>,
                   Wrap(prefix, extractExistingFrontmatter(text)), text, FALSE)

\* fields is options.fields of the extractor, <<>> when it was not given
extract(exists, text, fields) ==
  LET prefix == "Failed to extract frontmatter from " \o filePath
      read == readFile(exists, text)
      frontmatterData == parseFrontmatter(text)
  IN  IF ~read.ok THEN Outcome("extract", fields, Wrap(prefix, read), text, FALSE)
      ELSE IF ~frontmatterData.ok
        THEN Outcome("extract", fields, Wrap(prefix, frontmatterData), text, FALSE)
      ELSE IF frontmatterData.value.kind = "null"
        THEN Outcome("extract", fields, Ok(NullValue), text, FALSE)
      ELSE IF Len(fields) > 0
        THEN Outcome("extract", fields,
                     Ok(Obj(filterFields(frontmatterData.value.entries, fields))),
                     text, FALSE)
      ELSE Outcome("extract", fields, frontmatterData, text, FALSE)

----------------------------------------------------------------------------
(* GenerativeTags.  A file name and a pattern are sequences of characters; *)
(* the files are the entries of one directory, the directory of            *)
(* options.filePath.                                                       *)

FileA == <<"a", ".", "m", "d">>
FileB == <<"b", ".", "m", "d">>
FileC == <<"c", ".", "t">>
\* a directory in the directory, and a file in it
SubDir == <<"s", ".", "m", "d">>
NestedFile == SubDir \o <<"/">> \o FileA

\* what files holds for an entry that is a directory
DirectoryEntry == <<>>

\* the entries of the directory in the order readdir lists them
DirOrder == <<FileA, FileB, FileC, SubDir>>
FileNames == {FileA, FileB, FileC}

\* isGlobPattern that takes "." for a wildcard too
isGlobPattern_DotIsWildcard(p) == \E i \in 1..Len(p) : p[i] \in {"*", "?", "."}

\* filePath.includes('*') || filePath.includes('?')
isGlobPattern(p) == \E i \in 1..Len(p) : p[i] \in {"*", "?"}

\* the source of the regular expression: the pattern with "." escaped, "*"
\* turned into ".*" and "?" into "."; every other character is copied
RECURSIVE regexPattern(_)
regexPattern(pattern) ==
  IF pattern = <<>> THEN <<>>
  ELSE (IF Head(pattern) = "." THEN <<"\\", ".">>
        ELSE IF Head(pattern) = "*" THEN <<".", "*">>
        ELSE IF Head(pattern) = "?" THEN <<".">>
        ELSE <<Head(pattern)>>) \o regexPattern(Tail(pattern))

\* the characters a regular expression reads as quantifiers
Quantifiers == {"*", "+"}

\* new RegExp(source): the atoms of the expression, each with its
\* quantifier; ok is FALSE where the constructor throws a SyntaxError
\* (a quantifier with nothing to repeat)
RECURSIVE RegExp(_)
RegExp(source) ==
  IF source = <<>> THEN [ok |-> TRUE, atoms |-> <<>>]
  ELSE IF Head(source) \in Quantifiers THEN [ok |-> FALSE, atoms |-> <<>>]
  ELSE LET n == IF Head(source) = "\\" THEN 2 ELSE 1
           quantified == Len(source) > n /\ source[n + 1] \in Quantifiers
           atom == [any |-> Head(source) = ".",
                    char |-> source[n],
                    quantifier |-> IF quantified THEN source[n + 1] ELSE "1"]
           rest == RegExp(SubSeq(source, n + 1 + (IF quantified THEN 1 ELSE 0),
                                 Len(source)))
       IN  [ok |-> rest.ok, atoms |-> <<atom>> \o rest.atoms]

\* regex.test(string) for an expression anchored at both ends
RECURSIVE Test(_, _)
Test(atoms, string) ==
  IF atoms = <<>> THEN string = <<>>
  ELSE LET atom == Head(atoms)
           Fits(c) == atom.any \/ atom.char = c
       IN  IF atom.quantifier = "1"
             THEN /\ string # <<>>
                  /\ Fits(Head(string))
                  /\ Test(Tail(atoms), Tail(string))
             ELSE \E k \in (IF atom.quantifier = "+" THEN 1 ELSE 0)..Len(string) :
                    /\ \A i \in 1..k : Fits(string[i])
                    /\ Test(Tail(atoms), SubSeq(string, k + 1, Len(string)))

RegexErrorMessage == "Invalid regular expression: Nothing to repeat"

\* new RegExp('^' + regexPattern + '$').test(filename), or the SyntaxError
matchesGlob(filename, pattern) ==
  LET regex == RegExp(regexPattern(pattern))
  IN  IF regex.ok THEN [ok |-> TRUE, value |-> Test(regex.atoms, filename), error |-> <<>>]
      ELSE [ok |-> FALSE, value |-> FALSE, error |-> <<RegexErrorMessage>>]

\* fs.readdir(dir): the names of the direct children of the directory
readdir(dir) ==
  SelectSeq(DirOrder, LAMBDA file : file \in DOMAIN dir)

\* (await fs.stat(fullPath)).isFile()
isFile(dir, file) == dir[file] # DirectoryEntry

\* findMatchingFiles that does not look at what kind of entry it found
findMatchingFiles_NoIsFile(dir, readable, pattern) ==
  LET listed == readdir(dir)
  IN  Wrap("Failed to read directory",
        IF ~readable THEN Err(<<"ENOENT: no such file or directory, scandir">>)
        ELSE IF \E i \in 1..Len(listed) : ~matchesGlob(listed[i], pattern).ok
          THEN Err(<<RegexErrorMessage>>)
        ELSE Ok(SelectSeq(listed, LAMBDA file : matchesGlob(file, pattern).value)))

\* the entries of the directory that are files and match the pattern;
\* the pattern is compiled for every entry that is a file
findMatchingFiles(dir, readable, pattern) ==
  LET candidates == SelectSeq(readdir(dir), LAMBDA file : isFile(dir, file))
  IN  Wrap("Failed to read directory",
        IF ~readable THEN Err(<<"ENOENT: no such file or directory, scandir">>)
        ELSE IF \E i \in 1..Len(candidates) : ~matchesGlob(candidates[i], pattern).ok
          THEN Err(<<RegexErrorMessage>>)
        ELSE Ok(SelectSeq(candidates, LAMBDA file : matchesGlob(file, pattern).value)))

\* run() that takes a pattern without a match for the path of one file
filesToProcess_FallsBackToPath(dir, readable, p) ==
  IF isGlobPattern(p)
    THEN LET found == Wrap("Failed to process glob pattern",
                           findMatchingFiles(dir, readable, p))
         IN  IF found.ok /\ found.value = <<>> THEN Ok(<<p>>) ELSE found
    ELSE Ok(<<p>>)

\* the files run() is to process: the matches of a pattern, or the one
\* file of a literal path
filesToProcess(dir, readable, p) ==
  IF isGlobPattern(p)
    THEN Wrap("Failed to process glob pattern", findMatchingFiles(dir, readable, p))
    ELSE Ok(<<p>>)

AiErrorMessage == "AI_APICallError"
NoTagsMessage == "No tags generated from AI response"

\* selectedTags never holds more tags than this
MaxSelectedTags == 3

\* a prompt without the fixed text
userPrompt_NoPlaceholder(data) == [kind |-> "json", entries |-> data.entries]

\* the prompt generateTags sends: the frontmatter as JSON, or a fixed text
userPrompt(data) ==
  IF data.kind = "null"
    THEN [kind |-> "No frontmatter available", entries |-> <<>>]
    ELSE [kind |-> "json", entries |-> data.entries]

\* generateTags that returns every tag of the response
generateTags_NoSlice(response) ==
  Wrap("Failed to generate tags with AI",
    IF ~response.ok THEN response
    ELSE IF Len(response.value) = 0 THEN Err(<<NoTagsMessage>>)
    ELSE Ok(response.value))

\* generateTags once generateObject has answered with response: its tags,
\* or the error it rejected with
generateTags(response) ==
  Wrap("Failed to generate tags with AI",
    IF ~response.ok THEN response
    ELSE IF Len(response.value) = 0 THEN Err(<<NoTagsMessage>>)
    ELSE Ok(SubSeq(response.value, 1,
                   IF Len(response.value) > MaxSelectedTags
                     THEN MaxSelectedTags ELSE Len(response.value))))

\* the object { tags }
TagsObject(tags) == << <<"tags", SeqV([i \in 1..Len(tags) |-> Str(tags[i])])>> >>

\* what processSingleFile has done to a file when it returns or throws
Processed(r, text, wrote, tags) ==
  [ok |-> r.ok, error |-> r.error, content |-> text, wrote |-> wrote, tags |-> tags]

\* what an updater call did, as processSingleFile sees it
Written(outcome, tags) ==
  Processed([ok |-> outcome.result.status = "ok", error |-> outcome.result.error],
            outcome.content, outcome.result.wrote, tags)

\* writeTags that replaces the frontmatter of a file that has one
writeTags_AlwaysReplaces(text, create, existing, tags) ==
  IF existing.kind # "null"
    THEN Written(updateFrontmatter(TRUE, text, create, TagsObject(tags)), tags)
  ELSE IF create
    THEN Written(updateFrontmatter(TRUE, text, create, TagsObject(tags)), tags)
  ELSE Processed(Err(<<NoFrontmatterMessage>>), text, FALSE, tags)

\* the tags go into the existing frontmatter, or into a new one with
\* createIfMissing, or nowhere
writeTags(text, create, existing, tags) ==
  IF existing.kind # "null"
    THEN Written(updateFields(TRUE, text, create, TagsObject(tags)), tags)
  ELSE IF create
    THEN Written(updateFrontmatter(TRUE, text, create, TagsObject(tags)), tags)
  ELSE Processed(Err(<<NoFrontmatterMessage>>), text, FALSE, tags)

\* processSingleFile that writes an empty list when it got no tags
processSingleFile_IgnoresTagError(text, create, existing, response) ==
  LET tags == generateTags(response)
  IN  IF ~tags.ok THEN writeTags(text, create, existing, <<>>)
      ELSE writeTags(text, create, existing, tags.value)

\* the rest of processSingleFile after the AI model has answered
processSingleFile(text, create, existing, response) ==
  LET tags == generateTags(response)
  IN  IF ~tags.ok THEN Processed(tags, text, FALSE, <<>>)
      ELSE writeTags(text, create, existing, tags.value)

\* run() that gives up on the files after one that failed
afterFile_StopsOnFailure(glob, ok, last) ==
  IF ~ok THEN "failed" ELSE IF last THEN "done" ELSE "extract"

\* run() that raises after the loop when the last file failed
afterFile_RaisesAfterLoop(glob, ok, last) ==
  IF ~ok /\ (~glob \/ last) THEN "failed" ELSE IF last THEN "done" ELSE "extract"

\* where run() goes when processSingleFile is over: a failure ends run()
\* for one file, and is logged and skipped in the loop over the matches
afterFile(glob, ok, last) ==
  IF ~ok /\ ~glob THEN "failed" ELSE IF last THEN "done" ELSE "extract"

\* an entry of the log
Event(type, file, data) == [type |-> type, file |-> file, data |-> data]

\* processSingleFile that checks for a frontmatter to write to before it
\* asks the AI model
startProcessing_ChecksPolicyFirst(file, extracted, create) ==
  IF extracted.status # "ok"
    THEN <<Event("extract", file, <<>>), Event("failed", file, extracted.error)>>
  ELSE IF extracted.value.kind = "null" /\ ~create
    THEN <<Event("extract", file, <<>>), Event("failed", file, <<NoFrontmatterMessage>>)>>
  ELSE <<Event("extract", file, <<>>), Event("ai", file, userPrompt(extracted.value))>>

\* processSingleFile up to the request to the AI model: what it does once
\* extract() has returned or raised; createIfMissing is not looked at yet
startProcessing(file, extracted, create) ==
  IF extracted.status # "ok"
    THEN <<Event("extract", file, <<>>), Event("failed", file, extracted.error)>>
    ELSE <<Event("extract", file, <<>>), Event("ai", file, userPrompt(extracted.value))>>

----------------------------------------------------------------------------
(* Write operations of two updaters on one file.  An operation awaits      *)
(* fs.readFile, computes the new text from what it read, and awaits        *)
(* fs.writeFile; the other operation can run between the two.              *)

Writers == {1, 2}

Call(op, arg) == [op |-> op, arg |-> arg]

\* what fs.readFile found: whether the file was there, and its text
ReadOf(exists, text) == [exists |-> exists, text |-> text]

NoWriters ==
  [w \in Writers |-> [pc |-> "idle", call |-> Call("none", <<>>), read |-> ReadOf(FALSE, <<"">>),
                      wrote |-> FALSE, order |-> 0]]

\* the write operation of a call on the text of the file
Perform(call, exists, text, create) ==
  IF call.op = "updateFrontmatter" THEN updateFrontmatter(exists, text, create, call.arg)
  ELSE IF call.op = "updateFields" THEN updateFields(exists, text, create, call.arg)
  ELSE removeFields(exists, text, create, call.arg)

\* an operation that reads the file again before it writes
afterRead_ReadsAgain(call, read, current, create) ==
  Perform(call, current.exists, current.text, create)

\* the rest of an operation once fs.readFile has returned: it works on
\* what it read, whatever the file holds by now
afterRead(call, read, current, create) ==
  Perform(call, read.exists, read.text, create)

----------------------------------------------------------------------------
(* The update-frontmatter command.  An argument of --set and of --remove   *)
(* is the sequence of its pieces: names, values and the characters "=",    *)
(* ",", " " and the quotes.                                                *)

\* JSON.parse(text) for the texts of the model
JSONparse(text) ==
  CASE text = "{}" -> Ok(<<>>)
    [] text = "{\"title\":\"true\"}" -> Ok(<< <<"title", Str("true")>> >>)
    [] text = "{\"title\":true}" -> Ok(<< <<"title", Bool("true")>> >>)
    [] text = "{\"meta\":{\"a\":\"X\"}}"
         -> Ok(<< <<"meta", MapV(<< <<"a", Str("X")>> >>)>> >>)
    [] OTHER -> Err(<<"Unexpected end of JSON input">>)

\* string.split(separator)
RECURSIVE Split(_, _)
Split(string, separator) ==
  IF \A i \in 1..Len(string) : string[i] # separator THEN <<string>>
  ELSE LET i == CHOOSE j \in 1..Len(string) :
                  /\ string[j] = separator
                  /\ \A k \in 1..(j - 1) : string[k] # separator
       IN  <<SubSeq(string, 1, i - 1)>>
             \o Split(SubSeq(string, i + 1, Len(string)), separator)

\* the string of a sequence of pieces
RECURSIVE Join(_)
Join(pieces) == IF pieces = <<>> THEN "" ELSE Head(pieces) \o Join(Tail(pieces))

\* string.trim()
RECURSIVE Trim(_)
Trim(string) ==
  IF string # <<>> /\ Head(string) = " " THEN Trim(Tail(string))
  ELSE IF string # <<>> /\ string[Len(string)] = " "
    THEN Trim(SubSeq(string, 1, Len(string) - 1))
  ELSE string

\* value.replace(/^["']|["']$/g, '')
RemoveQuotes(value) ==
  LET first == IF value # <<>> /\ Head(value) \in {"\"", "'"} THEN 2 ELSE 1
      rest == SubSeq(value, first, Len(value))
  IN  IF rest # <<>> /\ rest[Len(rest)] \in {"\"", "'"}
        THEN SubSeq(rest, 1, Len(rest) - 1)
        ELSE rest

\* the fieldUpdates object of the --set arguments: an argument without "=",
\* without a key or without a value is skipped, and split('=', 2) drops what
\* follows a second "="
RECURSIVE SetFields(_)
SetFields(setArgs) ==
  IF setArgs = <<>> THEN <<>>
  ELSE LET setArg == setArgs[Len(setArgs)]
           before == SetFields(SubSeq(setArgs, 1, Len(setArgs) - 1))
           parts == Split(setArg, "=")
       IN  IF Len(parts) >= 2 /\ parts[1] # <<>> /\ parts[2] # <<>>
             THEN Spread(before, << <<Join(parts[1]), Str(Join(RemoveQuotes(parts[2])))>> >>)
             ELSE before

\* remove.split(',').map(f => f.trim())
RemoveList(remove) ==
  LET parts == Split(remove, ",")
  IN  [i \in 1..Len(parts) |-> Join(Trim(parts[i]))]

\* how a command ends: the file, what the updater returned, the exit code
\* and the message on the standard output
Finish(outcome, message) ==
  [content |-> outcome.content,
   result |-> outcome.result,
   exitCode |-> IF outcome.result.status = "ok" THEN 0 ELSE 1,
   stdout |-> IF outcome.result.status = "ok" /\ message # "" THEN <<message>> ELSE <<>>]

\* handleUpdateFrontmatter for the parsed arguments values
handleUpdateFrontmatter(exists, text, values) ==
  IF values.update # ""
    THEN LET updateData == JSONparse(values.update)
         IN  IF ~updateData.ok
               THEN Finish(Outcome("JSON.parse", <<>>, updateData, text, FALSE), "")
               ELSE Finish(updateFields(exists, text, values.create, updateData.value),
                           "Frontmatter updated successfully")
  ELSE IF values.set # <<>>
    THEN LET fieldUpdates == SetFields(values.set)
         IN  IF fieldUpdates # <<>>
               THEN Finish(updateFields(exists, text, values.create, fieldUpdates),
                           "Fields updated successfully")
               ELSE Finish(Outcome("none", <<>>, Ok(Void), text, FALSE), "")
  ELSE IF values.remove # <<>>
    THEN Finish(removeFields(exists, text, values.create, RemoveList(values.remove)),
                "Fields removed successfully")
  ELSE Finish(Outcome("none", <<>>,
                      Err(<<"One of --update, --set, or --remove is required">>),
                      text, FALSE), "")

----------------------------------------------------------------------------
(* The files and the arguments of the model                                *)

SeqsUpTo(S, n) == UNION {[1..k -> S] : k \in 0..n}

\* the YAML text between the fences of the files the model starts from:
\* what the library writes, an empty block, a block its author quoted,
\* and a block that is not well-formed YAML
InitialYaml ==
  {stringifyYaml(m) : m \in Mappings}
    \cup {<<>>, <<KeyLine("title", Quote("X"))>>, <<KeyLine("title", "[")>>}

FilesWithFrontmatter ==
  {<<Fence>> \o y \o <<Fence>> \o rest :
     y \in InitialYaml, rest \in SeqsUpTo(BodyLines, MaxBodyLines)}

FilesWithoutFrontmatter == SeqsUpTo(BodyLines, MaxBodyLines) \ {<<>>}

FieldNames == Keys \cup ObjectPrototypeKeys

\* the lists of at most MaxFields distinct names, each in the order of
\* FieldOrder
FieldOrder == <<"title", "meta", "constructor">>
FieldLists ==
  {SelectSeq(FieldOrder, LAMBDA f : f \in S) :
     S \in {T \in SUBSET FieldNames : Cardinality(T) <= MaxFields}}

NoResult ==
  [op |-> "none", arg |-> <<>>, status |-> "ok", value |-> Void,
   error |-> <<>>, wrote |-> FALSE]

\* values of every kind the YAML codec knows: strings (one that reads as
\* a boolean and one that reads as a number when left plain), a number, a
\* boolean, null, sequences and nested mappings
ComplexValues ==
  {Str("X"), Str("true"), Str("1"), Num("1"), Bool("true"), Null,
   SeqV(<<>>), SeqV(<<Str("true"), Bool("true")>>), SeqV(<<Num("1"), Null>>),
   MapV(<<>>), MapV(<< <<"a", Null>>, <<"b", Str("1")>> >>)}

ComplexEntries == {<<k, v>> : k \in Keys, v \in ComplexValues}

\* one entry more than the mappings of the other operations, so that the
\* order of the keys shows
ComplexMappings ==
  {m \in UNION {[1..n -> ComplexEntries] : n \in 0..(MaxEntries + 1)} : DistinctKeys(m)}

\* the test files a mapping is written to
TestFiles ==
  {<<"text">>,
   <<Fence, Fence>>,
   <<Fence, KeyLine("title", "true"), Fence, "", "# H", "">>}

\* the texts of the files in the directory of the tag generator: no
\* frontmatter, a frontmatter with a title and tags, an empty frontmatter,
\* a frontmatter that is not well-formed YAML
TagFileTexts ==
  {<<"text">>,
   <<Fence, KeyLine("title", "true"), HeaderLine("tags"), ItemLine("old"), Fence,
     "", "text", "">>,
   <<Fence, Fence>>,
   <<Fence, KeyLine("title", "["), Fence>>}

\* the same frontmatters over another body
OtherBodyTexts ==
  {<<"# H">>,
   <<Fence, KeyLine("title", "true"), HeaderLine("tags"), ItemLine("old"), Fence,
     "", "# H", "">>}

\* what the directory can hold under each name
EntriesOf(name) ==
  IF name = FileA THEN TagFileTexts
  ELSE IF name = FileB THEN {<<"text">>, <<Fence, Fence>>} \cup OtherBodyTexts
  ELSE IF name = FileC THEN {<<"# H">>}
  ELSE IF name = SubDir THEN {DirectoryEntry}
  ELSE {<<"text">>}

\* a file in the directory of the directory is there with that directory
Directories ==
  UNION {{dir \in [S -> TagFileTexts \cup OtherBodyTexts \cup {DirectoryEntry}] :
            \A name \in S : dir[name] \in EntriesOf(name)} :
         S \in {T \in SUBSET (FileNames \cup {SubDir, NestedFile}) :
                  NestedFile \in T => SubDir \in T}}

\* options.filePath: one file, or a pattern
Paths ==
  {FileA, <<"?", ".", "m", "d">>, <<"?", ".", "m">>, <<"*">>, <<"a", "+", "*">>, <<"*", "+">>}

\* the text of a file of the directory
TextOf(dir, file) == IF file \in DOMAIN dir THEN dir[file] ELSE <<"">>

\* the calls of the two updaters
WriterCalls ==
  {Call("updateFields", << <<"title", Str("X")>> >>),
   Call("updateFields", << <<"meta", MapV(<< <<"a", Str("X")>> >>)>> >>),
   Call("updateFrontmatter", << <<"title", Bool("true")>> >>),
   Call("removeFields", <<"title">>)}

\* the values of --update: JSON texts, and one that is cut short
UpdateArguments ==
  {"{}", "{\"title\":\"true\"}", "{\"title\":true}", "{\"meta\":{\"a\":\"X\"}}", "{"}

\* the values of --set
SetArguments ==
  {<<"title", "=", "X">>, <<"title", "=", "'", "true", "'">>,
   <<"meta", "=", "X", "=", "a">>, <<"title", "=">>, <<"title">>}

\* the values of --remove
RemoveArguments ==
  {<<"title">>, <<"title", ",", " ", "meta">>, <<"meta", ",">>}

\* parseArgs(...).values of the update-frontmatter command
NoValues == [update |-> "", set |-> <<>>, remove |-> <<>>, create |-> FALSE]
CommandLines ==
  {[NoValues EXCEPT !.update = u, !.create = c] : u \in UpdateArguments, c \in BOOLEAN}
    \cup {[NoValues EXCEPT !.set = <<a>>, !.create = c] : a \in SetArguments, c \in BOOLEAN}
    \cup {[NoValues EXCEPT !.set = <<a, b>>] : a \in SetArguments, b \in SetArguments}
    \cup {[NoValues EXCEPT !.remove = r, !.create = c] : r \in RemoveArguments, c \in BOOLEAN}
    \cup {[NoValues EXCEPT !.update = "{}", !.remove = <<"title">>], NoValues}

\* what generateObject answers: a list of tags, or it rejects
ResponseLengths == {0, 2, MaxTags}
AIResponses ==
  {Ok(SubSeq(TagNames, 1, n)) : n \in ResponseLengths} \cup {Err(<<AiErrorMessage>>)}

\* the tag generator has not been constructed
NoRun ==
  /\ files = <<>>
  /\ dirReadable = TRUE
  /\ exitCode = -1
  /\ stdout = <<>>
  /\ writers = NoWriters
  /\ originalFiles = <<>>
  /\ path = <<>>
  /\ pc = "idle"
  /\ matched = <<>>
  /\ index = 0
  /\ frontmatter = Void
  /\ log = <<>>
  /\ runError = <<>>

----------------------------------------------------------------------------
(* The state machine of one file and its extractor and updater.  Each      *)
(* action binds the outcome of its call once and assigns from it.          *)

Init ==
  /\ \/ /\ fileExists = TRUE
        /\ content \in FilesWithFrontmatter \cup FilesWithoutFrontmatter
     \/ /\ fileExists = FALSE
        /\ content = <<"">>
  /\ createIfMissing \in BOOLEAN
  /\ originalContent = content
  /\ result = NoResult
  /\ NoRun

UpdateFrontmatter ==
  \E updates \in Mappings :
    \E outcome \in {updateFrontmatter(fileExists, content, createIfMissing, updates)} :
        /\ originalContent' = content
        /\ content' = outcome.content
        /\ result' = outcome.result
        /\ fileExists' = (fileExists \/ outcome.result.wrote)
        /\ UNCHANGED <<createIfMissing, tagVars, writers>>

UpdateFields ==
  \E fieldUpdates \in Mappings :
    \E outcome \in {updateFields(fileExists, content, createIfMissing, fieldUpdates)} :
        /\ originalContent' = content
        /\ content' = outcome.content
        /\ result' = outcome.result
        /\ fileExists' = (fileExists \/ outcome.result.wrote)
        /\ UNCHANGED <<createIfMissing, tagVars, writers>>

RemoveFields ==
  \E fieldsToRemove \in FieldLists :
    \E outcome \in {removeFields(fileExists, content, createIfMissing, fieldsToRemove)} :
        /\ originalContent' = content
        /\ content' = outcome.content
        /\ result' = outcome.result
        /\ fileExists' = (fileExists \/ outcome.result.wrote)
        /\ UNCHANGED <<createIfMissing, tagVars, writers>>

GetCurrentFrontmatter ==
  \E outcome \in {getCurrentFrontmatter(fileExists, content)} :
      /\ originalContent' = content
      /\ content' = outcome.content
      /\ result' = outcome.result
      /\ fileExists' = (fileExists \/ outcome.result.wrote)
      /\ UNCHANGED <<createIfMissing, tagVars, writers>>

\* a new extractor with options.fields = fields, and its extract()
Extract ==
  \E fields \in FieldLists :
    \E outcome \in {extract(fileExists, content, fields)} :
        /\ originalContent' = content
        /\ content' = outcome.content
        /\ result' = outcome.result
        /\ fileExists' = (fileExists \/ outcome.result.wrote)
        /\ UNCHANGED <<createIfMissing, tagVars, writers>>

Next ==
  \/ UpdateFrontmatter
  \/ UpdateFields
  \/ RemoveFields
  \/ GetCurrentFrontmatter
  \/ Extract

Spec == Init /\ [][Next]_vars

----------------------------------------------------------------------------
(* Writing a mapping of complex data types to a test file: one write per   *)
(* test file                                                               *)

RoundTripInit ==
  /\ fileExists = TRUE
  /\ content \in TestFiles
  /\ createIfMissing \in BOOLEAN
  /\ originalContent = content
  /\ result = NoResult
  /\ NoRun

WriteComplexFrontmatter ==
  /\ result.op = "none"
  /\ \E updates \in ComplexMappings :
       \E outcome \in {updateFrontmatter(fileExists, content, createIfMissing, updates)} :
           /\ originalContent' = content
           /\ content' = outcome.content
           /\ result' = outcome.result
           /\ fileExists' = (fileExists \/ outcome.result.wrote)
           /\ UNCHANGED <<createIfMissing, tagVars, writers>>

WriteComplexFields ==
  /\ result.op = "none"
  /\ \E fieldUpdates \in ComplexMappings :
       \E outcome \in {updateFields(fileExists, content, createIfMissing, fieldUpdates)} :
           /\ originalContent' = content
           /\ content' = outcome.content
           /\ result' = outcome.result
           /\ fileExists' = (fileExists \/ outcome.result.wrote)
           /\ UNCHANGED <<createIfMissing, tagVars, writers>>

RoundTripNext ==
  \/ WriteComplexFrontmatter
  \/ WriteComplexFields

RoundTripSpec == RoundTripInit /\ [][RoundTripNext]_vars

----------------------------------------------------------------------------
(* The state machine of the tag generator: run() on a directory            *)

TagsInit ==
  /\ fileExists = FALSE
  /\ content = <<"">>
  /\ originalContent = <<"">>
  /\ result = NoResult
  /\ createIfMissing \in BOOLEAN
  /\ files \in Directories
  /\ dirReadable \in {TRUE, files # <<>>}
  /\ originalFiles = files
  /\ path \in Paths
  /\ pc = "idle"
  /\ matched = <<>>
  /\ index = 0
  /\ frontmatter = Void
  /\ log = <<>>
  /\ runError = <<>>
  /\ exitCode = -1
  /\ stdout = <<>>
  /\ writers = NoWriters

\* run() up to the first processSingleFile: the file of a literal path, or
\* the matches of a pattern; without a match run() logs it and returns, and
\* when the directory cannot be enumerated run() raises
Run ==
  /\ pc = "idle"
  /\ \E found \in {filesToProcess(files, dirReadable, path)} :
       /\ matched' = found.value
       /\ pc' = IF ~found.ok THEN "failed"
                ELSE IF found.value = <<>> THEN "done" ELSE "extract"
       /\ log' = IF found.ok /\ found.value = <<>>
                   THEN Append(log, Event("nofiles", path, <<>>))
                   ELSE log
       /\ runError' = IF found.ok THEN <<>>
                                  ELSE <<"Failed to generate tags">> \o found.error
  /\ UNCHANGED <<files, dirReadable, originalFiles, path, index, frontmatter, exitCode,
                 stdout,
                 createIfMissing, updaterVars, writers>>

\* processSingleFile up to the request to the AI model: extract() reads the
\* frontmatter and generateTags sends it
ExtractFrontmatter ==
  /\ pc = "extract"
  /\ \E extracted \in {extract(matched[index + 1] \in DOMAIN files,
                               TextOf(files, matched[index + 1]), <<>>).result} :
     \E events \in {startProcessing(matched[index + 1], extracted, createIfMissing)} :
       LET next == afterFile(isGlobPattern(path), FALSE, index + 1 = Len(matched))
           last == events[Len(events)]
       IN  /\ log' = log \o events
           /\ IF last.type = "ai"
                THEN /\ frontmatter' = extracted.value
                     /\ pc' = "ai"
                     /\ UNCHANGED <<index, runError>>
                ELSE /\ frontmatter' = Void
                     /\ pc' = next
                     /\ index' = index + 1
                     /\ runError' = IF next = "failed"
                                      THEN <<"Failed to generate tags">> \o last.data
                                      ELSE <<>>
  /\ UNCHANGED <<files, dirReadable, originalFiles, path, matched, exitCode, stdout,
                 createIfMissing, updaterVars, writers>>

\* the AI model answers and processSingleFile runs to its end
WriteTags ==
  /\ pc = "ai"
  /\ \E response \in AIResponses :
     \E done \in {processSingleFile(files[matched[index + 1]], createIfMissing,
                                    frontmatter, response)} :
       LET file == matched[index + 1]
           next == afterFile(isGlobPattern(path), done.ok, index + 1 = Len(matched))
       IN  /\ files' = [files EXCEPT ![file] = done.content]
           /\ log' = log \o <<Event("answer", file, response)>>
                         \o (IF done.wrote THEN <<Event("write", file, done.tags)>>
                                           ELSE <<>>)
                         \o <<Event(IF done.ok THEN "ok" ELSE "failed", file, done.error)>>
           /\ index' = index + 1
           /\ pc' = next
           /\ runError' = IF next = "failed"
                            THEN <<"Failed to generate tags">> \o done.error
                            ELSE <<>>
           /\ frontmatter' = Void
  /\ UNCHANGED <<dirReadable, originalFiles, path, matched, exitCode, stdout,
                 createIfMissing, updaterVars, writers>>

\* handleGenerateTags after run(): 'Tags generated successfully' and exit
\* code 0 when run() returned, the error and exit code 1 when it raised
HandleGenerateTags ==
  /\ pc \in {"done", "failed"}
  /\ exitCode = -1
  /\ exitCode' = IF pc = "done" THEN 0 ELSE 1
  /\ stdout' = IF pc = "done" THEN <<"Tags generated successfully">> ELSE <<>>
  /\ UNCHANGED <<files, dirReadable, originalFiles, path, pc, matched, index,
                 frontmatter, log, runError, createIfMissing, updaterVars, writers>>

TagsNext ==
  \/ Run
  \/ ExtractFrontmatter
  \/ WriteTags
  \/ HandleGenerateTags

TagsSpec == TagsInit /\ [][TagsNext]_vars

----------------------------------------------------------------------------
(* The state machine of the update-frontmatter command on one file: each   *)
(* step is one run of the command                                          *)

HandleUpdateFrontmatter ==
  \E values \in CommandLines :
    \E done \in {handleUpdateFrontmatter(fileExists, content, values)} :
      /\ originalContent' = content
      /\ content' = done.content
      /\ result' = done.result
      /\ fileExists' = (fileExists \/ done.result.wrote)
      /\ createIfMissing' = values.create
      /\ exitCode' = done.exitCode
      /\ stdout' = done.stdout
      /\ UNCHANGED <<files, dirReadable, originalFiles, path, pc, matched, index,
                     frontmatter, log, runError, writers>>

CliNext == HandleUpdateFrontmatter

CliSpec == Init /\ [][CliNext]_vars

----------------------------------------------------------------------------
(* The state machine of two write operations on one file                   *)

ConcurrentInit ==
  /\ \/ /\ fileExists = TRUE
        /\ content \in TagFileTexts \cup OtherBodyTexts
     \/ /\ fileExists = FALSE
        /\ content = <<"">>
  /\ createIfMissing \in BOOLEAN
  /\ originalContent = content
  /\ result = NoResult
  /\ NoRun

\* an updater is called and its fs.readFile returns
ReadFile(w) ==
  /\ writers[w].pc = "idle"
  /\ \E call \in WriterCalls :
       writers' = [writers EXCEPT ![w].pc = "read", ![w].call = call,
                                  ![w].read = ReadOf(fileExists, content)]
  /\ UNCHANGED <<createIfMissing, updaterVars, tagVars>>

\* the operation runs to its end: it writes the file, or raises
WriteFile(w) ==
  /\ writers[w].pc = "read"
  /\ \E outcome \in {afterRead(writers[w].call, writers[w].read,
                                 ReadOf(fileExists, content), createIfMissing)} :
       /\ originalContent' = content
       /\ content' = IF outcome.result.wrote THEN outcome.content ELSE content
       /\ fileExists' = (fileExists \/ outcome.result.wrote)
       /\ result' = outcome.result
       /\ writers' = [writers EXCEPT
                        ![w].pc = "done",
                        ![w].wrote = outcome.result.wrote,
                        ![w].order = 1 + Cardinality({v \in Writers : writers[v].pc = "done"})]
  /\ UNCHANGED <<createIfMissing, tagVars>>

ConcurrentNext ==
  \E w \in Writers :
    \/ ReadFile(w)
    \/ WriteFile(w)

ConcurrentSpec == ConcurrentInit /\ [][ConcurrentNext]_vars

----------------------------------------------------------------------------
(* Properties.  Each is about the last operation: originalContent is the   *)
(* file it found, content the file it left, result what it was given and   *)
(* what it returned.                                                       *)

WriteOps == {"updateFrontmatter", "updateFields", "removeFields"}

\* the metadata a reader finds in a text
Metadata(text) == extractExistingFrontmatter(text)

\* the text has a metadata block and the block decodes to a mapping
HasMetadata(text) == HasFrontmatter(text) /\ Metadata(text).ok

MetadataMap(text) == AsMap(Metadata(text).value.entries)

\* the file holds a metadata block that decodes to exactly the mapping f
MetadataIs(text, f) ==
  /\ HasMetadata(text)
  /\ Metadata(text).value.kind = "map"
  /\ MetadataMap(text) = f

\* the YAML text between the fences
YamlText(text) == SubSeq(text, 2, ClosingFence(text) - 1)

NamesOf(fields) == {fields[i] : i \in 1..Len(fields)}

\* C1: for a document that already has a metadata block, a write operation
\* that replaces the metadata leaves all text after the closing fence
\* byte-identical to what it was before the operation.
C1_ContentAfterFencePreserved ==
  (/\ result.op \in WriteOps
   /\ HasFrontmatter(originalContent)
   /\ result.wrote)
    => AfterFence(content) = AfterFence(originalContent)

\* C2: updateFrontmatter(m) with createIfMissing on a file without a
\* metadata block writes exactly "---\n" + YAML(m) + "\n---\n" followed by
\* the original file content, unchanged.
C2_CreatedBlockThenOriginalVerbatim ==
  (/\ result.op = "updateFrontmatter"
   /\ fileExists
   /\ createIfMissing
   /\ ~HasFrontmatter(originalContent))
    => /\ result.status = "ok"
       /\ content = <<Fence>> \o stringifyYaml(result.arg) \o <<Fence>> \o originalContent

\* C3: updateFrontmatter and updateFields on a file without a metadata
\* block and with createIfMissing false fail with 'No frontmatter found and
\* createIfMissing is false', create no metadata block and leave the file
\* byte-unchanged.
C3_NoFrontmatterErrorLeavesFile ==
  (/\ result.op \in {"updateFrontmatter", "updateFields"}
   /\ fileExists
   /\ ~createIfMissing
   /\ ~HasFrontmatter(originalContent))
    => /\ result.status = "error"
       /\ result.error[Len(result.error)] = NoFrontmatterMessage
       /\ ~result.wrote
       /\ content = originalContent
       /\ ~HasFrontmatter(content)

C3_Witness ==
  /\ result.op = "updateFields"
  /\ result.status = "error"
  /\ result.error[Len(result.error)] = NoFrontmatterMessage
  /\ ~HasFrontmatter(originalContent)
  /\ result.arg # <<>>

\* the shallow merge of mapping g over mapping f
ShallowMerge(f, g) ==
  [k \in DOMAIN f \cup DOMAIN g |-> IF k \in DOMAIN g THEN g[k] ELSE f[k]]

\* C4: updateFields(p) on a file with metadata M leaves the metadata equal
\* to the shallow merge of p over M: every key of p holds p's value (a
\* nested value is replaced whole), every other key of M keeps its value,
\* and no other key appears.
C4_UpdateFieldsShallowMerge ==
  (/\ result.op = "updateFields"
   /\ fileExists
   /\ HasMetadata(originalContent))
    => /\ result.status = "ok"
       /\ MetadataIs(content, ShallowMerge(MetadataMap(originalContent), AsMap(result.arg)))

\* a nested value of M was replaced by another nested value while another
\* key of M survived
C4_Witness ==
  /\ result.op = "updateFields"
  /\ result.status = "ok"
  /\ HasMetadata(originalContent)
  /\ DOMAIN MetadataMap(originalContent) = {"title", "meta"}
  /\ KeysOf(result.arg) = {"meta"}
  /\ MetadataMap(originalContent)["meta"] = MapV(<< <<"a", Str("X")>> >>)
  /\ MetadataMap(content)["meta"] = MapV(<< <<"b", Str("X")>> >>)
  /\ MetadataMap(content)["title"] = MetadataMap(originalContent)["title"]

\* C5: updateFrontmatter(newMapping) on a file with metadata M leaves the
\* metadata equal to newMapping exactly: no key of M that is absent from
\* newMapping survives.
C5_UpdateFrontmatterReplaces ==
  (/\ result.op = "updateFrontmatter"
   /\ fileExists
   /\ HasMetadata(originalContent))
    => /\ result.status = "ok"
       /\ MetadataIs(content, AsMap(result.arg))

\* a key of M that newMapping does not have is gone
C5_Witness ==
  /\ result.op = "updateFrontmatter"
  /\ result.status = "ok"
  /\ HasMetadata(originalContent)
  /\ "meta" \in DOMAIN MetadataMap(originalContent)
  /\ KeysOf(result.arg) = {"title"}
  /\ DOMAIN MetadataMap(content) = {"title"}

\* C6: removeFields(keys) on a file with metadata M leaves the metadata
\* equal to M without the named keys, every other key with its value;
\* naming a key that M does not have raises no error and changes nothing.
C6_RemoveFieldsDeletesNamedKeys ==
  (/\ result.op = "removeFields"
   /\ fileExists
   /\ HasMetadata(originalContent))
    => /\ result.status = "ok"
       /\ MetadataIs(content,
                     [k \in DOMAIN MetadataMap(originalContent) \ NamesOf(result.arg)
                        |-> MetadataMap(originalContent)[k]])

\* one key of M removed, one key kept, one named key that M does not have
C6_Witness ==
  /\ result.op = "removeFields"
  /\ result.status = "ok"
  /\ HasMetadata(originalContent)
  /\ DOMAIN MetadataMap(originalContent) = {"title", "meta"}
  /\ NamesOf(result.arg) = {"title", "constructor"}
  /\ DOMAIN MetadataMap(content) = {"meta"}

\* C7: removeFields(keys) on a file without a metadata block returns
\* without error and without writing, whatever createIfMissing is.
C7_RemoveFieldsWithoutMetadataIsNoOp ==
  (/\ result.op = "removeFields"
   /\ fileExists
   /\ ~HasFrontmatter(originalContent))
    => /\ result.status = "ok"
       /\ ~result.wrote
       /\ content = originalContent
       /\ ~HasFrontmatter(content)

C7_Witness ==
  /\ result.op = "removeFields"
  /\ result.status = "ok"
  /\ createIfMissing
  /\ ~HasFrontmatter(originalContent)
  /\ result.arg # <<>>

\* C8: extract() on a file without a leading metadata fence returns null,
\* not {} and not an error, with or without a fields filter.
C8_ExtractWithoutFenceReturnsNull ==
  (/\ result.op = "extract"
   /\ fileExists
   /\ ~HasFrontmatter(originalContent))
    => /\ result.status = "ok"
       /\ result.value = NullValue

C8_Witness ==
  /\ result.op = "extract"
  /\ result.value = NullValue
  /\ ~HasFrontmatter(originalContent)
  /\ result.arg # <<>>

\* C9: extract() with a non-empty fields list returns a mapping whose key
\* set is exactly the requested fields that are keys of the decoded
\* mapping, each with the document's value; the result is {} when none of
\* them is a key of the document.
C9_ExtractProjectsOnDocumentKeys ==
  (/\ result.op = "extract"
   /\ fileExists
   /\ result.arg # <<>>
   /\ HasMetadata(originalContent))
    => /\ result.status = "ok"
       /\ result.value.kind = "map"
       /\ AsMap(result.value.entries)
            = [k \in NamesOf(result.arg) \cap DOMAIN MetadataMap(originalContent)
                 |-> MetadataMap(originalContent)[k]]

\* C10: a file whose metadata fence holds empty text decodes to {} and
\* never to null, in extract() and in getCurrentFrontmatter(), and write
\* operations do not raise the no-frontmatter error on it.
C10_EmptyFenceDecodesToEmptyMapping ==
  (/\ result.op # "none"
   /\ fileExists
   /\ HasFrontmatter(originalContent)
   /\ YamlText(originalContent) = <<>>)
    => /\ result.status = "ok"
       /\ result.op = "getCurrentFrontmatter" => result.value = Obj(<<>>)
       /\ (result.op = "extract" /\ result.arg = <<>>) => result.value = Obj(<<>>)
       /\ result.op = "extract" => result.value.kind = "map"
       /\ (result.op \in WriteOps /\ ~createIfMissing) => result.wrote

C10_Witness ==
  /\ result.op = "getCurrentFrontmatter"
  /\ HasFrontmatter(originalContent)
  /\ YamlText(originalContent) = <<>>
  /\ result.value = Obj(<<>>)
  /\ ~createIfMissing

----------------------------------------------------------------------------
(* Properties of the writes of complex data types (RoundTripSpec) and of   *)
(* single operations (Spec)                                                *)

\* C11: after updateFrontmatter(m), or updateFields(m) on a file whose
\* metadata is empty or absent, succeeds for a mapping m of strings,
\* numbers, booleans, null, arrays and nested mappings, getCurrentFrontmatter()
\* and extract() return a mapping equal to m, entry by entry in m's order,
\* array elements and nested keys included.
C11_WrittenMappingReadsBack ==
  (/\ result.op \in {"updateFrontmatter", "updateFields"}
   /\ result.status = "ok"
   /\ result.op = "updateFields" => Metadata(originalContent).value.entries = <<>>)
    => /\ getCurrentFrontmatter(fileExists, content).result.status = "ok"
       /\ getCurrentFrontmatter(fileExists, content).result.value = Obj(result.arg)
       /\ extract(fileExists, content, <<>>).result.status = "ok"
       /\ extract(fileExists, content, <<>>).result.value = Obj(result.arg)

C11_Witness ==
  /\ result.op = "updateFrontmatter"
  /\ result.status = "ok"
  /\ ~HasFrontmatter(originalContent)
  /\ result.arg = << <<"meta", MapV(<< <<"a", Null>>, <<"b", Str("1")>> >>)>> >>
  /\ getCurrentFrontmatter(fileExists, content).result.value = Obj(result.arg)

\* the last write operation, applied once more to the file it left
Again ==
  IF result.op = "updateFrontmatter"
    THEN updateFrontmatter(fileExists, content, createIfMissing, result.arg)
  ELSE IF result.op = "updateFields"
    THEN updateFields(fileExists, content, createIfMissing, result.arg)
  ELSE removeFields(fileExists, content, createIfMissing, result.arg)

\* C12: each write operation is idempotent: applying the same
\* updateFrontmatter(m), updateFields(p) or removeFields(ks) a second time
\* right after the first leaves the file as the first application left it,
\* with the same outcome.
C12_WriteOperationsIdempotent ==
  result.op \in WriteOps
    => /\ Again.content = content
       /\ Again.result.status = result.status

C12_Witness ==
  /\ result.op = "updateFields"
  /\ result.wrote
  /\ result.arg # <<>>
  /\ content # originalContent
  /\ Again.content = content

\* C13: extract() and getCurrentFrontmatter() never write: whatever they
\* return (mapping, null or error) the file is byte-identical to what it
\* was, no metadata block appears even with createIfMissing, and
\* getCurrentFrontmatter() returns what an unfiltered extract() returns.
C13_ReadsNeverWrite ==
  result.op \in {"extract", "getCurrentFrontmatter"}
    => /\ content = originalContent
       /\ ~result.wrote
       /\ result.op = "getCurrentFrontmatter"
            => /\ extract(fileExists, content, <<>>).result.status = result.status
               /\ extract(fileExists, content, <<>>).result.value = result.value
       /\ (result.op = "extract" /\ result.arg = <<>>)
            => /\ getCurrentFrontmatter(fileExists, content).result.status = result.status
               /\ getCurrentFrontmatter(fileExists, content).result.value = result.value

C13_Witness ==
  /\ result.op = "getCurrentFrontmatter"
  /\ fileExists
  /\ createIfMissing
  /\ ~HasFrontmatter(content)
  /\ result.value = NullValue
  /\ content = originalContent

\* the words each operation's error opens with, before the path
OperationPrefix(op) ==
  IF op = "updateFrontmatter" THEN "Failed to update frontmatter in "
  ELSE IF op = "updateFields" THEN "Failed to update fields in "
  ELSE IF op = "removeFields" THEN "Failed to remove fields from "
  ELSE IF op = "getCurrentFrontmatter" THEN "Failed to read frontmatter from "
  ELSE "Failed to extract frontmatter from "

\* C14: on a file that is missing, every operation of the extractor and of
\* the updater raises one error that names the operation and the path; it
\* returns no value, writes nothing and the file is still missing afterwards.
C14_MissingFileRaises ==
  [][~fileExists
       => /\ ~fileExists'
          /\ content' = content
          /\ result'.status = "error"
          /\ result'.value = Void
          /\ ~result'.wrote
          /\ result'.error = <<OperationPrefix(result'.op) \o filePath, ReadErrorMessage>>]_vars

C14_Witness ==
  /\ ~fileExists
  /\ createIfMissing
  /\ result.op = "updateFrontmatter"
  /\ result.arg # <<>>
  /\ result.status = "error"

\* the text has a metadata block whose YAML is not well-formed: a flow
\* sequence that is never closed
Malformed(text) == HasFrontmatter(text) /\ YamlText(text) = <<KeyLine("title", "[")>>

\* the operation failed with a parse error that names the operation and
\* the path, and left the file as it was
ParseErrorRaised ==
  /\ result.status = "error"
  /\ result.error[1] = OperationPrefix(result.op) \o filePath
  /\ result.error[Len(result.error)] = YamlErrorMessage
  /\ result.value = Void
  /\ ~result.wrote
  /\ content = originalContent

\* C15 as stated: on a file whose metadata block holds malformed YAML every
\* operation, updateFrontmatter included, fails with a path-qualified parse
\* error and leaves the file unchanged.
C15_MalformedYamlFailsEveryOperation ==
  (result.op # "none" /\ fileExists /\ Malformed(originalContent))
    => ParseErrorRaised

\* C15, amended: on a file whose metadata block holds malformed YAML the
\* operations that decode the block (extract, getCurrentFrontmatter,
\* updateFields, removeFields) fail with a path-qualified parse error and
\* leave the file unchanged; updateFrontmatter does not decode the block, it
\* succeeds and replaces it with the YAML of its argument.
C15_MalformedYamlFailsDecodingOperations ==
  (result.op # "none" /\ fileExists /\ Malformed(originalContent))
    => IF result.op = "updateFrontmatter"
         THEN /\ result.status = "ok"
              /\ result.wrote
              /\ MetadataIs(content, AsMap(result.arg))
         ELSE ParseErrorRaised

C15_Witness ==
  /\ result.op = "updateFields"
  /\ fileExists
  /\ Malformed(originalContent)
  /\ Malformed(content)
  /\ result.status = "error"
  /\ result.arg # <<>>

\* the lines of the text that are fences
FenceLines(text) == {i \in 1..Len(text) : text[i] = Fence}

\* C25: after any sequence of updateFrontmatter, updateFields and
\* removeFields calls, with createIfMissing set or not, the file holds at
\* most one metadata block, and the block opens the document; a block is
\* inserted only into a file that has none.
C25_AtMostOneMetadataBlock ==
  /\ Cardinality(FenceLines(content)) \in {0, 2}
  /\ FenceLines(content) # {} => content[1] = Fence /\ HasFrontmatter(content)
  /\ (result.wrote /\ FenceLines(originalContent) # {})
       => Cardinality(FenceLines(content)) = Cardinality(FenceLines(originalContent))

C25_Witness ==
  /\ createIfMissing
  /\ result.op \in {"updateFrontmatter", "updateFields", "removeFields"}
  /\ result.wrote
  /\ Cardinality(FenceLines(originalContent)) = 2
  /\ Cardinality(FenceLines(content)) = 2
  /\ content # originalContent

\* C26: a write operation writes the file at most once, as a full overwrite
\* in its last step, after reading, decoding, changing and encoding have
\* succeeded; when the operation raises an error of an earlier step the
\* file is byte-identical to what it was before the call.
C26_WriteIsLastStep ==
  result.op \in WriteOps
    => /\ result.status = "error" => ~result.wrote /\ content = originalContent
       /\ result.wrote => result.status = "ok"
       /\ ~result.wrote => content = originalContent

C26_Witness ==
  /\ result.op = "removeFields"
  /\ fileExists
  /\ Malformed(originalContent)
  /\ result.status = "error"
  /\ ~result.wrote
  /\ content = originalContent

----------------------------------------------------------------------------
(* Properties of the tag generator (TagsSpec)                              *)

\* the path names a pattern and not one file
HasWildcard(p) == \E i \in 1..Len(p) : p[i] = "*" \/ p[i] = "?"

\* the entries of the log that end the processing of a file
Outcomes == SelectSeq(log, LAMBDA e : e.type \in {"ok", "failed"})

\* the number of files whose processing was over before entry i of the log
FinishedBefore(i) ==
  Cardinality({j \in 1..(i - 1) : log[j].type \in {"ok", "failed"}})

\* C16: in batch mode every matched file is processed exactly once, one at
\* a time and in the order of the enumeration, and the failure of a file
\* does not keep the later files from being processed.
C16_BatchProcessesEachMatchOnceInOrder ==
  (HasWildcard(path) /\ pc # "idle")
    => /\ matched = findMatchingFiles(originalFiles, dirReadable, path).value
       /\ Len(Outcomes) = index
       /\ \A i \in 1..Len(Outcomes) : Outcomes[i].file = matched[i]
       /\ \A i \in 1..Len(log) :
            log[i].type # "nofiles" => log[i].file = matched[FinishedBefore(i) + 1]
       /\ pc \in {"done", "failed"} => Len(Outcomes) = Len(matched)

C16_Witness ==
  /\ HasWildcard(path)
  /\ pc = "done"
  /\ Len(matched) = 3
  /\ Outcomes[1].type = "failed"
  /\ Outcomes[2].type = "ok"
  /\ Outcomes[3].type = "ok"

FirstN(list, n) == SubSeq(list, 1, IF Len(list) < n THEN Len(list) ELSE n)

\* the tags the file holds
TagsOf(text) == Get(Metadata(text).value.entries, "tags")

\* C18: when the AI model answers with n >= 1 tags, the list written to
\* the file is the first min(n, 3) of them in the order of the answer;
\* never more than 3 tags are written.
C18_FirstThreeTagsWritten ==
  \A i \in 1..Len(log) :
    log[i].type = "write"
      => /\ log[i - 1].type = "answer"
         /\ log[i - 1].data.ok
         /\ log[i].data = FirstN(log[i - 1].data.value, 3)
         /\ Len(log[i].data) <= 3
         /\ HasMetadata(files[log[i].file])
         /\ TagsOf(files[log[i].file])
              = SeqV([k \in 1..Len(log[i].data) |-> Str(log[i].data[k])])

C18_Witness ==
  \E i \in 2..Len(log) :
    /\ log[i].type = "write"
    /\ Len(log[i - 1].data.value) = MaxTags
    /\ Len(log[i].data) = 3
    /\ TagsOf(files[log[i].file]) = SeqV(<<Str("t1"), Str("true"), Str("t3")>>)

\* C19: when the AI model answers with no tags, the processing of the file
\* fails with an error and the file is not written, with or without
\* metadata and whatever createIfMissing is; no empty tags list is ever
\* written.
C19_NoTagsFailsWithoutWriting ==
  /\ \A i \in 1..Len(log) :
       (log[i].type = "answer" /\ log[i].data.ok /\ log[i].data.value = <<>>)
         => /\ log[i + 1].type = "failed"
            /\ log[i + 1].data[Len(log[i + 1].data)] = NoTagsMessage
            /\ files[log[i].file] = originalFiles[log[i].file]
  /\ \A i \in 1..Len(log) : log[i].type = "write" => log[i].data # <<>>

C19_Witness ==
  \E i \in 1..Len(log) :
    /\ log[i].type = "answer"
    /\ log[i].data.ok
    /\ log[i].data.value = <<>>
    /\ createIfMissing
    /\ ~HasFrontmatter(originalFiles[log[i].file])
    /\ log[i + 1].type = "failed"

\* the tags generateTags returned for the file
GeneratedFor(file) ==
  LET i == CHOOSE j \in 1..Len(log) : log[j].type = "answer" /\ log[j].file = file
  IN  generateTags(log[i].data)

RECURSIVE GlobMatches(_, _)
GlobMatches(filename, pattern) ==
  IF pattern = <<>> THEN filename = <<>>
  ELSE IF Head(pattern) = "*"
    THEN \E k \in 0..Len(filename) :
           GlobMatches(SubSeq(filename, k + 1, Len(filename)), Tail(pattern))
  ELSE /\ filename # <<>>
       /\ Head(pattern) = "?" \/ Head(pattern) = Head(filename)
       /\ GlobMatches(Tail(filename), Tail(pattern))

\* C21: matchesGlob(filename, pattern) is true exactly when the whole
\* filename matches the pattern, where "*" matches any run of characters,
\* "?" exactly one character and every other character, "+" among them,
\* only itself.
C21_MatchesGlobFollowsGlobRules ==
  HasWildcard(path)
    => \A filename \in DOMAIN originalFiles :
         /\ matchesGlob(filename, path).ok
         /\ matchesGlob(filename, path).value = GlobMatches(filename, path)

\* C22: in batch mode, when no file matches the pattern, run() returns
\* without an error, the AI model is never asked, and no file is read for
\* its metadata or written.
C22_NoMatchNoWork ==
  (/\ HasWildcard(path)
   /\ pc # "idle"
   /\ findMatchingFiles(originalFiles, dirReadable, path) = Ok(<<>>))
    => /\ pc = "done"
       /\ runError = <<>>
       /\ log = <<Event("nofiles", path, <<>>)>>
       /\ files = originalFiles
       /\ exitCode \in {-1, 0}

C22_Witness ==
  /\ HasWildcard(path)
  /\ pc = "done"
  /\ FileC \in DOMAIN files
  /\ matched = <<>>
  /\ log = <<Event("nofiles", path, <<>>)>>
  /\ exitCode = 0

\* the requests to the AI model, in the order they were sent
Requests == SelectSeq(log, LAMBDA e : e.type = "ai")

\* C24: the prompt sent to the AI model depends on the metadata of the file
\* only: two files with equal metadata (or both without) yield the same
\* prompt whatever follows the fence, and without metadata the prompt is
\* the fixed text 'No frontmatter available'.
C24_PromptDependsOnMetadataOnly ==
  \A i \in 1..Len(Requests) :
    LET text == originalFiles[Requests[i].file]
    IN  /\ ~HasFrontmatter(text)
             => Requests[i].data = [kind |-> "No frontmatter available", entries |-> <<>>]
        /\ \A j \in 1..Len(Requests) :
             LET other == originalFiles[Requests[j].file]
             IN  (/\ HasFrontmatter(text) = HasFrontmatter(other)
                  /\ Metadata(text) = Metadata(other))
                   => Requests[i].data = Requests[j].data

C24_Witness ==
  /\ Len(Requests) = 3
  /\ HasFrontmatter(originalFiles[FileA])
  /\ Metadata(originalFiles[FileA]) = Metadata(originalFiles[FileB])
  /\ AfterFence(originalFiles[FileA]) # AfterFence(originalFiles[FileB])
  /\ Requests[1].data = Requests[2].data
  /\ Requests[1].data.kind = "json"
  /\ Requests[3].data.kind = "No frontmatter available"

\* the files processSingleFile was called for
Started == {log[i].file : i \in {j \in 1..Len(log) : log[j].type = "extract"}}

\* the places in the log of the requests to the AI model for a file
AiRequests(file) == {i \in 1..Len(log) : log[i].type = "ai" /\ log[i].file = file}

\* the metadata of the file can be read: the file is there and its
\* frontmatter, if it has one, is well-formed
Readable(file) ==
  /\ file \in DOMAIN originalFiles
  /\ originalFiles[file] # DirectoryEntry
  /\ ~Malformed(originalFiles[file])

\* every write to the file and every failure for want of a frontmatter
\* comes after a request to the AI model for that file
AiComesFirst(file) ==
  \A k \in 1..Len(log) :
    (/\ log[k].file = file
     /\ \/ log[k].type = "write"
        \/ /\ log[k].type = "failed"
           /\ log[k].data[Len(log[k].data)] = NoFrontmatterMessage)
      => \E a \in AiRequests(file) : a < k

\* C28 as stated: the steps of a file run in the order extract, one AI
\* request, create-policy check, write; the AI model is asked exactly once
\* for every processed file and before any write, also for a file without
\* metadata when createIfMissing is unset.
C28_AiAskedOncePerProcessedFile ==
  \A file \in Started :
    /\ Cardinality(AiRequests(file)) = 1
    /\ AiComesFirst(file)

\* C28: the steps of a file run in the order extract, one AI request,
\* create-policy check, write; the AI model is asked exactly once for every
\* file whose metadata could be read, and before any write and before the
\* failure for want of a frontmatter; it is not asked for a file whose
\* metadata could not be read.
C28_AiAskedOncePerReadableFile ==
  \A file \in Started :
    /\ Cardinality(AiRequests(file)) = IF Readable(file) THEN 1 ELSE 0
    /\ AiComesFirst(file)
    /\ \A a \in AiRequests(file) : log[a - 1] = Event("extract", file, <<>>)
    /\ (Readable(file) /\ ~HasFrontmatter(originalFiles[file]) /\ ~createIfMissing)
         => files[file] = originalFiles[file]

C28_Witness ==
  \E k \in 4..Len(log) :
    /\ ~createIfMissing
    /\ log[k].type = "failed"
    /\ log[k].data = <<NoFrontmatterMessage>>
    /\ log[k - 1].type = "answer"
    /\ log[k - 1].data.ok
    /\ log[k - 2].type = "ai"
    /\ log[k - 2].data.kind = "No frontmatter available"
    /\ log[k - 3].type = "extract"
    /\ ~HasFrontmatter(originalFiles[log[k].file])

\* the error of run() when the directory could not be enumerated
EnumerationFailed ==
  /\ Len(runError) > 3
  /\ SubSeq(runError, 1, 3) = <<"Failed to generate tags", "Failed to process glob pattern",
                                "Failed to read directory">>

\* C29: in batch mode run() never raises because files failed: it returns
\* normally even when every matched file failed, and the generate-tags
\* command then prints 'Tags generated successfully' and exits with 0;
\* run() raises in batch mode only when enumerating the directory fails,
\* and then no file has been processed.
C29_BatchRaisesOnlyOnEnumeration ==
  HasWildcard(path)
    => /\ pc = "failed"
            => /\ EnumerationFailed
               /\ log = <<>>
               /\ files = originalFiles
       /\ Outcomes # <<>> => runError = <<>>
       /\ (Outcomes # <<>> /\ exitCode # -1)
            => /\ pc = "done"
               /\ exitCode = 0
               /\ stdout = <<"Tags generated successfully">>
       /\ exitCode = 1 => pc = "failed" /\ stdout = <<>>

\* every file of the batch failed and the command reports success
C29_Witness ==
  /\ HasWildcard(path)
  /\ Len(matched) = 2
  /\ Len(Outcomes) = 2
  /\ \A i \in 1..2 : Outcomes[i].type = "failed"
  /\ files = originalFiles
  /\ exitCode = 0
  /\ stdout = <<"Tags generated successfully">>

\* the entry is a file, not a directory, and lies in the directory itself
DirectChildFile(name) ==
  /\ name \in DOMAIN originalFiles
  /\ originalFiles[name] # DirectoryEntry
  /\ \A i \in 1..Len(name) : name[i] # "/"

\* the pattern is made of "*", "?" and characters that stand for themselves
\* in a regular expression once "." is escaped
PlainPattern(p) == \A i \in 1..Len(p) : p[i] \notin Quantifiers \ {"*"}

\* C30: the enumeration of a batch takes only the regular files that are
\* direct children of the directory of the pattern, and matches the whole
\* name of each against the last part of the pattern: directories and
\* files in nested directories are never processed, and every processed
\* file is a direct child of that directory.
C30_OnlyDirectChildFilesProcessed ==
  HasWildcard(path)
    => /\ \A i \in 1..Len(matched) :
            /\ DirectChildFile(matched[i])
            /\ PlainPattern(path) => GlobMatches(matched[i], path)
       /\ \A i \in 1..Len(log) :
            log[i].type # "nofiles" => DirectChildFile(log[i].file)
       /\ DOMAIN files = DOMAIN originalFiles
       /\ \A name \in DOMAIN files :
            ~DirectChildFile(name) => files[name] = originalFiles[name]

\* a directory whose name matches the pattern, with a file in it whose
\* name matches too: the run is over two files beside them
C30_Witness ==
  /\ HasWildcard(path)
  /\ PlainPattern(path)
  /\ pc = "done"
  /\ NestedFile \in DOMAIN files
  /\ GlobMatches(SubDir, path)
  /\ ~GlobMatches(FileC, path)
  /\ FileC \in DOMAIN files
  /\ matched = <<FileA, FileB>>
  /\ Len(Outcomes) = 2
  /\ files[FileA] # originalFiles[FileA]

----------------------------------------------------------------------------
(* Properties of two write operations on one file (ConcurrentSpec)         *)

\* the operations that have written, and the one whose write was the last
Wrote == {w \in Writers : writers[w].pc = "done" /\ writers[w].wrote}
LastWriter == CHOOSE w \in Wrote : \A v \in Wrote : writers[v].order <= writers[w].order

\* the text an operation computes from the text it read
ComputedBy(w) ==
  Perform(writers[w].call, writers[w].read.exists, writers[w].read.text,
          createIfMissing).content

\* C27: when two write operations on one file interleave, the file ends up
\* holding exactly the text written by the operation whose write was the
\* last, the text it computed from what it had read: nothing checks that
\* the file is still what was read, and the two writes are never merged.
C27_LastWriterWins ==
  Wrote # {} => content = ComputedBy(LastWriter)

\* both operations read the file before either wrote, and the first write
\* is lost
C27_Witness ==
  /\ Wrote = Writers
  /\ writers[1].read = writers[2].read
  /\ writers[1].order = 1
  /\ ComputedBy(1) # ComputedBy(2)
  /\ content = ComputedBy(2)
  /\ writers[1].call.op = "updateFields"
  /\ writers[2].call.op = "updateFields"
  /\ DOMAIN MetadataMap(ComputedBy(1)) = {"title", "tags"}
  /\ DOMAIN MetadataMap(content) = {"title", "tags", "meta"}
  /\ MetadataMap(content)["title"] # MetadataMap(ComputedBy(1))["title"]

----------------------------------------------------------------------------
(* Properties of the update-frontmatter command (CliSpec)                  *)

\* C23: update-frontmatter <file> --update='<json>' updates the entire
\* frontmatter: after it succeeds the metadata of the file is the JSON
\* mapping, and no key of the old metadata that the JSON lacks survives.
C23_UpdateReplacesEntireFrontmatter ==
  stdout = <<"Frontmatter updated successfully">>
    => MetadataIs(content, AsMap(result.arg))

====
